---------------------------- MODULE Spec2Model ----------------------------
(***************************************************************************)
(* RiskMetricsCumulative (zipline/finance/risk/cumulative.py): the         *)
(* cumulative risk-statistics aggregator, as a state machine.  The state   *)
(* is the object's attributes; the actions are the constructor's outcome   *)
(* (Init), update, to_dict, __repr__ and the two public helper methods.    *)
(*                                                                         *)
(* Two statements of update have an outcome the source does not decide but *)
(* the installed library does: Series.__setitem__ with a label that is not *)
(* in the index (line 162), and the quotient of the sum by the size of an  *)
(* empty series (lines 165-167).  The model keeps every answer a library   *)
(* gives; the answer is the same throughout a run.                         *)
(*                                                                         *)
(* Floating-point values are kept exact.  A float is a record              *)
(*    [k, n, d, sn, sd]                                                    *)
(* k = "fin"  : the real number (n/d) * sqrt(sn/sd), n/d and sn/sd reduced *)
(* k = "ln2"  : the real number n * ln(2)   (a value of math.log)          *)
(* k = "nan"  : not-a-number,  k = "-inf" : minus infinity                 *)
(* k = "opaque": a finite value of a helper whose formula is not modelled  *)
(* k = "None" / "unset" / "obj": Python None, a missing attribute, and a   *)
(*              non-numeric object shown by __repr__                       *)
(* Returns are drawn from values r with 1 + r a power of two (or <= 0, or  *)
(* NaN), so that log, exp, sums and products are exact.                    *)
(***************************************************************************)
EXTENDS Integers, Sequences, FiniteSets, TLC

\* ---------------------------------------------------------------- bounds
\* Number of trading days of the simulated period.
NumDays == 2
\* Number of grid minutes per calendar day (a timestamp is day*DayLen+minute).
DayLen == 2
\* Number of update calls explored per run.
MaxUpdates == 2
\* Number of direct calls of the helper methods explored per run.
MaxDirectCalls == 1

\* ------------------------------------------------------- exact arithmetic
Abs(x) == IF x < 0 THEN -x ELSE x

RECURSIVE GCD(_, _)
GCD(a, b) == IF b = 0 THEN a ELSE GCD(b, a % b)

RECURSIVE Pow2(_)
Pow2(e) == IF e = 0 THEN 1 ELSE 2 * Pow2(e - 1)

Mk(kind, n, d, sn, sd) == [k |-> kind, n |-> n, d |-> d, sn |-> sn, sd |-> sd]

NaN == Mk("nan", 0, 1, 1, 1)
NegInf == Mk("-inf", 0, 1, 1, 1)
None == Mk("None", 0, 1, 1, 1)
Unset == Mk("unset", 0, 1, 1, 1)
Obj == Mk("obj", 0, 1, 1, 1)
Opaque == Mk("opaque", 0, 1, 1, 1)

\* The rational n/d (d # 0), reduced, with a positive denominator.
Q(n, d) ==
    LET g == GCD(Abs(n), Abs(d))
        s == IF d < 0 THEN -1 ELSE 1
    IN  Mk("fin", (s * n) \div g, (s * d) \div g, 1, 1)

Zero == Q(0, 1)
One == Q(1, 1)

\* n * ln(2)
Ln2(n) == Mk("ln2", n, 1, 1, 1)

IsNaN(x) == x.k = "nan"

\* IEEE arithmetic on rationals: NaN is absorbing.
FAdd(x, y) == IF IsNaN(x) \/ IsNaN(y) THEN NaN
              ELSE Q(x.n * y.d + y.n * x.d, x.d * y.d)
FSub(x, y) == IF IsNaN(x) \/ IsNaN(y) THEN NaN
              ELSE Q(x.n * y.d - y.n * x.d, x.d * y.d)
FMul(x, y) == IF IsNaN(x) \/ IsNaN(y) THEN NaN
              ELSE Q(x.n * y.n, x.d * y.d)
\* numpy float64 division: 0/0 is NaN (a warning, no exception).  A nonzero
\* numerator over zero does not arise for the quotients of this module.
FDiv(x, y) == IF IsNaN(x) \/ IsNaN(y) \/ y.n = 0 THEN NaN
              ELSE Q(x.n * y.d, x.d * y.n)

\* x < y as Python compares floats: False when either side is NaN.
FLess(x, y) ==
    CASE IsNaN(x) \/ IsNaN(y) -> FALSE
      [] x.k = "-inf" -> y.k # "-inf"
      [] y.k = "-inf" -> FALSE
      [] x.k = "ln2" /\ y.k = "ln2" -> x.n < y.n
      [] OTHER -> x.n * y.d < y.n * x.d

\* sqrt(q) for a rational q >= 0, and q / sqrt(s) for rationals q, s > 0.
FSqrt(q) == IF IsNaN(q) THEN NaN
            ELSE IF q.n = 0 THEN Zero
            ELSE Mk("fin", 1, 1, q.n, q.d)
FDivSqrt(q, s) == IF IsNaN(q) \/ IsNaN(s) THEN NaN
                  ELSE Mk("fin", q.n, q.d, s.sd, s.sn)

\* ------------------------------------------------------------ sequences
RECURSIVE SortedSeq(_)
\* The elements of a finite set of integers in increasing order.
SortedSeq(S) ==
    IF S = {} THEN <<>>
    ELSE LET m == CHOOSE x \in S : \A y \in S : x <= y
         IN  <<m>> \o SortedSeq(S \ {m})

MaxOf(S) == CHOOSE x \in S : \A y \in S : y <= x
MinOf(S) == CHOOSE x \in S : \A y \in S : x <= y

Last(s) == s[Len(s)]

RECURSIVE FSum(_)
FSum(s) == IF Len(s) = 0 THEN Zero ELSE FAdd(s[1], FSum(Tail(s)))

RECURSIVE FProd1p(_)
\* prod(1 + s[i])
FProd1p(s) == IF Len(s) = 0 THEN One
              ELSE FMul(FAdd(One, s[1]), FProd1p(Tail(s)))


\* ------------------------------------------------- calendar and inputs
\* Timestamps are minutes: DayLen * day + minute of the day; minute 0 is
\* midnight.  The simulated period is the days 1 .. NumDays.
DayStart(t) == (t \div DayLen) * DayLen

\* trading.environment.trading_days: every calendar day is a trading day,
\* one day before and after the period included.
all_trading_days == {DayLen * day : day \in 0 .. NumDays + 1}

\* sim_params: period bounds, first open and last close.
period_start == DayLen * 1
period_end == DayLen * NumDays
first_open == DayLen * 1 + 1
last_close == DayLen * NumDays + (DayLen - 1)

\* Timestamps passed to update: every minute of every day of the period.
Timestamps == period_start .. last_close

\* Strategy and benchmark returns passed to update.
AlgoReturns == {NaN, Q(-1, 1), Q(-1, 2), Zero, Q(1, 1)}
BenchReturns == {NaN, Zero, Q(1, 1)}

\* The treasury curves of the environment: per day of the period either a
\* rate (day/100, distinct from day to day) or no rate.
PeriodDays == {DayLen * day : day \in 1 .. NumDays}
TreasuryCurves == {c \in [PeriodDays -> {NaN} \cup {Q(t \div DayLen, 100) : t \in PeriodDays}] :
                     \A t \in PeriodDays : c[t] \in {NaN, Q(t \div DayLen, 100)}}

\* (emission_rate, returns_frequency) pairs given to the constructor;
\* "None" is an absent returns_frequency.
InitArgs == {<<"daily", "None">>, <<"minute", "None">>, <<"daily", "minute">>,
             <<"daily", "weekly">>, <<"weekly", "None">>}

METRIC_NAMES == {"alpha", "beta", "sharpe"}

\* ---------------------------------------------------------------- state
VARIABLES
    init_raised,                  \* exception raised by __init__, or "none"
    returns_frequency,            \* effective frequency chosen in __init__
    treasury_curves,
    trading_days,
    algorithm_returns_cont,
    benchmark_returns_cont,
    annualized_mean_returns_cont,
    algorithm_returns,
    benchmark_returns,
    annualized_mean_returns,
    num_trading_days,             \* -1 while the attribute does not exist
    compounded_log_returns,
    algorithm_volatility,
    benchmark_volatility,
    algorithm_period_returns,
    benchmark_period_returns,
    treasury_period_returns,
    treasury_period_return,       \* Unset while the attribute does not exist
    excess_returns,
    latest_dt,
    metrics,
    sortino,
    information,
    max_drawdown,
    current_max,
    daily_treasury,
    treasury_queries,             \* calls of choose_treasury per day
    call,                         \* the last call: operation, dt, exception
    rval,                         \* what the last call returned
    n_updates,                    \* number of update calls so far
    last_call_dt,                 \* dt of the previous update call
    order,                        \* how the update timestamps have arrived
    all_returned,                 \* no update call has raised so far
    n_direct,                     \* number of direct calls of a helper method
    appended,                     \* labels added to each series' index, in order
    pandas_setitem,               \* the library's answer to a missing label
    empty_mean                    \* the library's answer to an empty mean

series == <<algorithm_returns_cont, benchmark_returns_cont,
            annualized_mean_returns_cont, algorithm_returns,
            benchmark_returns, annualized_mean_returns, appended>>
lists == <<compounded_log_returns, algorithm_volatility, benchmark_volatility,
           algorithm_period_returns, benchmark_period_returns,
           treasury_period_returns, excess_returns, sortino, information>>
fields == <<init_raised, returns_frequency, treasury_curves, trading_days,
            series, lists, num_trading_days, treasury_period_return,
            latest_dt, metrics, max_drawdown, current_max, daily_treasury>>
ghosts == <<treasury_queries, n_updates, last_call_dt, order, all_returned,
            n_direct>>
library == <<pandas_setitem, empty_mean>>
vars == <<fields, ghosts, library, call, rval>>

\* ------------------------------------------------------------- pandas
\* pd.Series(index=idx): every entry missing.
NewSeries(idx) == [t \in idx |-> NaN]

\* Python None for an attribute that later holds a series.
NoneSeries == [t \in {-1} |-> None]
IsNoneSeries(s) == DOMAIN s = {-1}

\* Series.valid(): the entries that are not missing.
valid(s) == [t \in {u \in DOMAIN s : ~IsNaN(s[u])} |-> s[t]]

\* The values of a series, by increasing label.  What the code computes
\* from them (sums, products, and the products of the pairs of two series
\* that passed the index check) does not depend on their order.
Values(s) == LET idx == SortedSeq(DOMAIN s)
             IN  [i \in 1 .. Len(idx) |-> s[idx[i]]]

Range(q) == {q[i] : i \in 1 .. Len(q)}

\* The index of a series, in position order: the labels of the grid in
\* increasing order, then the labels __setitem__ has appended (tail), in
\* the order it appended them; valid() keeps the order.
Labels(s, tail) ==
    LET kept(t) == t \in DOMAIN s
    IN  SelectSeq(SortedSeq(DOMAIN s \ Range(tail)) \o tail, kept)

\* series.index[0] and series.index[-1], for a series without missing
\* values also first_valid_index() and last_valid_index().
first_valid_index(s, tail) == Head(Labels(s, tail))
last_valid_index(s, tail) == Last(Labels(s, tail))

\* Series.__setitem__(dt, value) with a label that is not in the index:
\* pandas before 0.13 raises KeyError and writes nothing, pandas from 0.13
\* on appends the label to the index ("setting with enlargement").
SetitemAnswers == {"KeyError", "enlarges"}

\* np.sum(series) / np.size(series) for an empty series: ZeroDivisionError
\* where the empty sum is the integer 0, NaN where it is a float.
EmptyMeanAnswers == {"ZeroDivisionError", "nan"}

\* The answers of the library at a statement: the one it has given before
\* in this run; any of its answers when the statement asks for the first
\* time; "unknown" as long as no statement has asked.
library_answers(known, answers, asked) ==
    IF known # "unknown" THEN {known}
    ELSE IF asked THEN answers
    ELSE {"unknown"}

\* Series.__setitem__(dt, value) that does not raise.
setitem(s, dt, value) ==
    [t \in DOMAIN s \cup {dt} |-> IF t = dt THEN value ELSE s[t]]

\* The appended labels of an index after __setitem__(dt, value).
setitem_tail(s, tail, dt) == IF dt \in DOMAIN s THEN tail ELSE Append(tail, dt)

\* A dict with no entry.
EmptyDict == [key \in {} |-> None]

\* ------------------------------------------------------- construction
start_date == DayStart(period_start)
end_date == DayStart(period_end)

\* __init__, lines 99-108: the trading days of the period, the period's
\* end appended when it is not one of them.
init_trading_days ==
    LET masked == {t \in all_trading_days : t >= start_date /\ t <= end_date}
    IN  IF period_end \notin masked THEN masked \cup {period_end} ELSE masked

get_daily_index == init_trading_days
get_minute_index == first_open .. last_close

\* __init__, lines 112-113.
effective_frequency(emission_rate, freq) ==
    IF freq = "None" THEN emission_rate ELSE freq

\* A frequency test without the 'minute' branch.
frequency_known_daily(freq) == freq = "daily"

\* __init__, lines 115-118: the grid; no branch assigns cont_index for any
\* other frequency and line 120 then fails on the unbound local.
frequency_known(freq) == freq \in {"daily", "minute"}
cont_index_of(freq) ==
    IF freq = "daily" THEN get_daily_index
    ELSE IF freq = "minute" THEN get_minute_index
    ELSE {}

Init ==
    \E args \in InitArgs, curves \in TreasuryCurves :
      LET freq == effective_frequency(args[1], args[2])
          cont_index == cont_index_of(freq)
          ok == frequency_known(freq)
      IN  /\ init_raised = IF ok THEN "none" ELSE "UnboundLocalError"
          /\ returns_frequency = freq
          /\ treasury_curves = curves
          /\ treasury_period_returns = <<>>
          /\ trading_days = init_trading_days
          /\ algorithm_returns_cont = NewSeries(cont_index)
          /\ benchmark_returns_cont = NewSeries(cont_index)
          /\ annualized_mean_returns_cont = NewSeries(cont_index)
          /\ algorithm_returns = NoneSeries
          /\ benchmark_returns = NoneSeries
          /\ annualized_mean_returns = NoneSeries
          /\ num_trading_days = -1
          /\ compounded_log_returns = <<>>
          /\ algorithm_volatility = <<>>
          /\ benchmark_volatility = <<>>
          /\ algorithm_period_returns = <<>>
          /\ benchmark_period_returns = <<>>
          /\ treasury_period_return = Unset
          /\ excess_returns = <<>>
          /\ latest_dt = IF ok THEN MinOf(cont_index) ELSE -1
          /\ metrics = [t \in cont_index |-> [m \in METRIC_NAMES |-> NaN]]
          /\ sortino = <<>>
          /\ information = <<>>
          /\ max_drawdown = Zero
          /\ current_max = NegInf
          /\ daily_treasury = NewSeries(init_trading_days)
          /\ treasury_queries = [t \in init_trading_days |-> 0]
          /\ call = [op |-> "__init__", dt |-> -1,
                     raised |-> IF ok THEN "none" ELSE "UnboundLocalError",
                     line |-> IF ok THEN 0 ELSE 120]
          /\ rval = EmptyDict
          /\ n_updates = 0
          /\ last_call_dt = -1
          /\ order = "strict"
          /\ all_returned = TRUE
          /\ n_direct = 0
          /\ appended = [algorithm |-> <<>>, mean |-> <<>>, benchmark |-> <<>>]
          /\ pandas_setitem = "unknown"
          /\ empty_mean = "unknown"

\* ------------------------------------------------------ risk formulas
\* zipline.utils.math_utils.tolerant_equals(a, 0): |a| <= 1/Tolerance,
\* compared on the squares ((n/d)^2 * sn/sd <= 1/Tolerance^2).
Tolerance == 1000000
tolerant_equals_zero(x) ==
    ~IsNaN(x) /\ x.n * x.n * x.sn <= ((x.d * x.d * x.sd) \div Tolerance) \div Tolerance

\* sharpe_ratio, lines 42-67.
sharpe_ratio(algorithm_volatility_, annualized_return, treasury_return) ==
    IF tolerant_equals_zero(algorithm_volatility_) THEN NaN
    ELSE FDivSqrt(FSub(annualized_return, treasury_return), algorithm_volatility_)

\* risk.alpha: the CAPM residual.
alpha(algorithm_period_return, treasury_period_return_, benchmark_period_return, beta) ==
    FSub(algorithm_period_return,
         FAdd(treasury_period_return_,
              FMul(beta, FSub(benchmark_period_return, treasury_period_return_))))

\* risk.sortino_ratio and risk.information_ratio: a value whose formula is
\* not modelled.
sortino_ratio(returns, period_return, mar) == Opaque
information_ratio(returns, benchmark) == Opaque

\* risk.check_entry: the entries to_dict replaces by None.
check_entry(key, value) ==
    IF key # "period_label" THEN IsNaN(value) \/ value.k \in {"-inf", "inf"}
    ELSE FALSE

\* risk.choose_treasury with the 10-year selection, compound=False: the
\* rate of the curves for the day of end_date.
choose_treasury(curves, start, end) == curves[DayStart(end)]

RECURSIVE ILog2(_)
ILog2(n) == IF n <= 1 THEN 0 ELSE 1 + ILog2(n \div 2)

\* math.log(x) for a rational x that is a power of two; a ValueError for
\* x <= 0.
math_log(x) ==
    IF x.n <= 0 THEN Mk("ValueError", 0, 1, 1, 1)
    ELSE IF x.d = 1 THEN Ln2(ILog2(x.n))
    ELSE Ln2(-ILog2(x.d))

\* math.exp(x - y) for two multiples of ln 2 (y may be minus infinity).
math_exp_diff(x, y) ==
    IF y.k = "-inf" THEN Mk("inf", 0, 1, 1, 1)
    ELSE IF x.n - y.n >= 0 THEN Q(Pow2(x.n - y.n), 1)
    ELSE Q(1, Pow2(y.n - x.n))

\* An update_compounded_log_returns that compounds into the last entry
\* instead of appending a new one.
update_compounded_log_returns_inplace(returns, tail, history) ==
    IF DOMAIN returns = {} THEN history
    ELSE LET logged == math_log(FAdd(One, returns[last_valid_index(returns, tail)]))
             compound == IF logged.k = "ValueError" THEN Ln2(0) ELSE logged
         IN  IF Len(history) = 0 THEN Append(history, compound)
             ELSE [history EXCEPT ![Len(history)] = Ln2(@.n + compound.n)]

\* An update_compounded_log_returns that gives up on a ValueError instead
\* of compounding the fallback.
update_compounded_log_returns_skip(returns, tail, history) ==
    IF DOMAIN returns = {} THEN history
    ELSE LET logged == math_log(FAdd(One, returns[last_valid_index(returns, tail)]))
         IN  IF logged.k = "ValueError" THEN history
             ELSE IF Len(history) = 0 THEN Append(history, logged)
             ELSE Append(history, Ln2(Last(history).n + logged.n))

\* An update_compounded_log_returns that compounds the first observed
\* return (first_valid_index) instead of the last one.
update_compounded_log_returns_first(returns, tail, history) ==
    IF DOMAIN returns = {} THEN history
    ELSE LET logged == math_log(FAdd(One, returns[first_valid_index(returns, tail)]))
             compound == IF logged.k = "ValueError" THEN Ln2(0) ELSE logged
         IN  IF Len(history) = 0 THEN Append(history, compound)
             ELSE Append(history, Ln2(Last(history).n + compound.n))

\* update_compounded_log_returns, lines 292-309.
update_compounded_log_returns(returns, tail, history) ==
    IF DOMAIN returns = {} THEN history
    ELSE LET logged == math_log(FAdd(One, returns[last_valid_index(returns, tail)]))
             compound == IF logged.k = "ValueError" THEN Ln2(0) ELSE logged
         IN  IF Len(history) = 0 THEN Append(history, compound)
             ELSE Append(history, Ln2(Last(history).n + compound.n))

\* calculate_period_returns, lines 311-313.
calculate_period_returns(returns) == FSub(FProd1p(Values(returns)), One)

\* An update_current_max that takes the latest entry as the peak.
update_current_max_latest(history, peak) ==
    IF Len(history) = 0 THEN peak ELSE Last(history)

\* update_current_max, lines 315-319.
update_current_max(history, peak) ==
    IF Len(history) = 0 THEN peak
    ELSE IF FLess(peak, Last(history)) THEN Last(history)
    ELSE peak

\* A calculate_max_drawdown that returns the current drawdown instead of
\* the larger of the two.
calculate_max_drawdown_current(history, peak, drawdown) ==
    IF Len(history) = 0 THEN drawdown
    ELSE FSub(One, math_exp_diff(Last(history), peak))

\* calculate_max_drawdown, lines 321-332.
calculate_max_drawdown(history, peak, drawdown) ==
    IF Len(history) = 0 THEN drawdown
    ELSE LET e == math_exp_diff(Last(history), peak)
             cur_drawdown == IF e.k = "inf" THEN NegInf ELSE FSub(One, e)
         IN  IF FLess(drawdown, cur_drawdown) THEN cur_drawdown ELSE drawdown

\* calculate_volatility, lines 370-371: np.std (ddof = 0) * sqrt(252).
calculate_volatility(daily_returns) ==
    LET x == Values(daily_returns)
        n == Len(x)
        sq == [i \in 1 .. n |-> FMul(x[i], x[i])]
    IN  IF n = 0 THEN NaN
        ELSE LET mean == FDiv(FSum(x), Q(n, 1))
                 var == FSub(FDiv(FSum(sq), Q(n, 1)), FMul(mean, mean))
             IN  FSqrt(FMul(var, Q(252, 1)))

\* A calculate_beta without the early return for fewer than two
\* observations.
calculate_beta_unguarded(returns, benchmark) ==
    LET a == Values(returns)
        b == Values(benchmark)
        n == Len(a)
        ma == FDiv(FSum(a), Q(n, 1))
        mb == FDiv(FSum(b), Q(n, 1))
        ab == [i \in 1 .. n |-> FMul(FSub(a[i], ma), FSub(b[i], mb))]
        bb == [i \in 1 .. n |-> FMul(FSub(b[i], mb), FSub(b[i], mb))]
    IN  FDiv(FDiv(FSum(ab), Q(n - 1, 1)), FDiv(FSum(bb), Q(n - 1, 1)))

\* A calculate_beta whose variance is the population variance (ddof = 0)
\* while the covariance stays the sample covariance (ddof = 1).
calculate_beta_mixed_ddof(returns, benchmark) ==
    IF Cardinality(DOMAIN returns) < 2 THEN Zero
    ELSE LET a == Values(returns)
             b == Values(benchmark)
             n == Len(a)
             ma == FDiv(FSum(a), Q(n, 1))
             mb == FDiv(FSum(b), Q(n, 1))
             ab == [i \in 1 .. n |-> FMul(FSub(a[i], ma), FSub(b[i], mb))]
             bb == [i \in 1 .. n |-> FMul(FSub(b[i], mb), FSub(b[i], mb))]
         IN  FDiv(FDiv(FSum(ab), Q(n - 1, 1)), FDiv(FSum(bb), Q(n, 1)))

\* calculate_beta, lines 373-394: np.cov with ddof = 1.
calculate_beta(returns, benchmark) ==
    IF Cardinality(DOMAIN returns) < 2 THEN Zero
    ELSE LET a == Values(returns)
             b == Values(benchmark)
             n == Len(a)
             ma == FDiv(FSum(a), Q(n, 1))
             mb == FDiv(FSum(b), Q(n, 1))
             ab == [i \in 1 .. n |-> FMul(FSub(a[i], ma), FSub(b[i], mb))]
             bb == [i \in 1 .. n |-> FMul(FSub(b[i], mb), FSub(b[i], mb))]
             algorithm_covariance == FDiv(FSum(ab), Q(n - 1, 1))
             benchmark_variance == FDiv(FSum(bb), Q(n - 1, 1))
         IN  FDiv(algorithm_covariance, benchmark_variance)

\* --------------------------------------------------------------- update
\* Series.__setitem__ with a timestamp label does not raise: the label is
\* in the index, or the library enlarges the index.
setitem_ok(s, dt, on_missing) == dt \in DOMAIN s \/ on_missing = "enlarges"

\* An index check that compares the two lengths only.
index_equals_len(returns, rtail, benchmark, btail) ==
    Cardinality(DOMAIN returns) = Cardinality(DOMAIN benchmark)

\* The observed-index check of update, lines 185-187: Index.equals, the
\* same labels in the same positions.
index_equals(returns, rtail, benchmark, btail) ==
    Labels(returns, rtail) = Labels(benchmark, btail)

\* How the timestamps of the update calls have arrived so far.
next_order(dt) ==
    IF order = "unordered" \/ dt < last_call_dt THEN "unordered"
    ELSE IF dt = last_call_dt THEN "nondecreasing"
    ELSE order

\* update, lines 165-167: the quotient raises for an empty series when the
\* library's empty sum is the integer 0 (0 / 0 of two integers).
mean_return_raises(returns, on_empty) ==
    DOMAIN returns = {} /\ on_empty = "ZeroDivisionError"

\* A row of the metrics timeline that holds no value.
empty_row == [m \in METRIC_NAMES |-> NaN]

\* update, lines 161-232, with the library answering on_missing at a label
\* that is not in the index and on_empty at an empty mean.  The statements
\* run in order; an exception leaves the assignments made before it.  step
\* is the number of the last statement group that ran:
\*   0  line 162 raised KeyError (dt is not in the index, no enlargement)
\*   1  line 167 raised ZeroDivisionError (no observed strategy return)
\*   2  line 197 raised the index-mismatch Exception
\*   3  line 208 raised IndexError (no observed strategy return), or
\*      line 210 raised KeyError (the day is not a trading day)
\*   4  line 225 raised IndexError (daily_treasury.valid() is empty)
\*   5  the call returned
\* Lines 169 and 173 write at the label line 162 has written: a library
\* that raises there has raised at line 162.  Lines 223-225 write through
\* the columns (self.metrics.beta[dt] = ...): metrics[t][m] is the value
\* self.metrics.<m>[t] reads back, at a new label when an enlarging library
\* has let dt through.
update_as(dt, algorithm_returns_in, benchmark_returns_in, on_missing, on_empty) ==
    LET arc == setitem(algorithm_returns_cont, dt, algorithm_returns_in)
        atail == setitem_tail(algorithm_returns_cont, appended.algorithm, dt)
        ar == valid(arc)
        mean_return == FDiv(FSum(Values(ar)), Q(Cardinality(DOMAIN ar), 1))
        amc == setitem(annualized_mean_returns_cont, dt, FMul(mean_return, Q(252, 1)))
        mtail == setitem_tail(annualized_mean_returns_cont, appended.mean, dt)
        am == valid(amc)
        brc == setitem(benchmark_returns_cont, dt, benchmark_returns_in)
        btail == setitem_tail(benchmark_returns_cont, appended.benchmark, dt)
        br == valid(brc)
        clr == update_compounded_log_returns(ar, atail, compounded_log_returns)
        apr == Append(algorithm_period_returns, calculate_period_returns(ar))
        bpr == Append(benchmark_period_returns, calculate_period_returns(br))
        cm == update_current_max(clr, current_max)
        bv == Append(benchmark_volatility, calculate_volatility(br))
        av == Append(algorithm_volatility, calculate_volatility(ar))
        last_dt == last_valid_index(ar, atail)
        treasury_end == DayStart(last_dt)
        miss == IsNaN(daily_treasury[treasury_end])
        dtr == IF miss
               THEN [daily_treasury EXCEPT
                        ![treasury_end] = choose_treasury(treasury_curves, start_date, last_dt)]
               ELSE daily_treasury
        tpr == dtr[treasury_end]
        tprs == Append(treasury_period_returns, tpr)
        er == Append(excess_returns, FSub(Last(apr), tpr))
        beta == calculate_beta(ar, br)
        alpha_ == alpha(Last(apr), tpr, Last(bpr), beta)
        dtv == valid(dtr)
        sharpe == sharpe_ratio(Last(av), am[last_valid_index(am, mtail)],
                               dtv[MaxOf(DOMAIN dtv)])
        so == Append(sortino, sortino_ratio(Values(ar), Last(apr), tpr))
        inf == Append(information, information_ratio(Values(ar), Values(br)))
        md == calculate_max_drawdown(clr, cm, max_drawdown)
        row == IF dt \in DOMAIN metrics THEN metrics[dt] ELSE empty_row
        step == IF ~setitem_ok(algorithm_returns_cont, dt, on_missing) THEN 0
                ELSE IF mean_return_raises(ar, on_empty) THEN 1
                ELSE IF ~index_equals(ar, atail, br, btail) THEN 2
                ELSE IF DOMAIN ar = {} THEN 3
                ELSE IF treasury_end \notin DOMAIN daily_treasury THEN 3
                ELSE IF DOMAIN dtv = {} THEN 4
                ELSE 5
        raised == CASE step = 0 -> "KeyError"
                    [] step = 1 -> "ZeroDivisionError"
                    [] step = 2 -> "Exception"
                    [] step = 3 -> IF DOMAIN ar = {} THEN "IndexError" ELSE "KeyError"
                    [] step = 4 -> "IndexError"
                    [] OTHER -> "none"
        line == CASE step = 0 -> 162
                  [] step = 1 -> 167
                  [] step = 2 -> 197
                  [] step = 3 -> IF DOMAIN ar = {} THEN 208 ELSE 210
                  [] step = 4 -> 225
                  [] OTHER -> 0
    IN  /\ init_raised = "none"
        /\ pandas_setitem' = on_missing
        /\ empty_mean' = on_empty
        /\ n_updates' = n_updates + 1
        /\ last_call_dt' = dt
        /\ order' = next_order(dt)
        /\ all_returned' = (all_returned /\ step = 5)
        /\ call' = [op |-> "update", dt |-> dt, raised |-> raised, line |-> line]
        /\ rval' = EmptyDict
        /\ UNCHANGED <<init_raised, returns_frequency, treasury_curves, trading_days,
                       n_direct>>
        /\ algorithm_returns_cont' = IF step >= 1 THEN arc ELSE algorithm_returns_cont
        /\ algorithm_returns' = IF step >= 1 THEN ar ELSE algorithm_returns
        /\ annualized_mean_returns_cont' =
               IF step >= 2 THEN amc ELSE annualized_mean_returns_cont
        /\ annualized_mean_returns' = IF step >= 2 THEN am ELSE annualized_mean_returns
        /\ benchmark_returns_cont' = IF step >= 2 THEN brc ELSE benchmark_returns_cont
        /\ benchmark_returns' = IF step >= 2 THEN br ELSE benchmark_returns
        /\ appended' = [algorithm |-> IF step >= 1 THEN atail ELSE appended.algorithm,
                        mean |-> IF step >= 2 THEN mtail ELSE appended.mean,
                        benchmark |-> IF step >= 2 THEN btail ELSE appended.benchmark]
        /\ num_trading_days' =
               IF step >= 2 THEN Cardinality(DOMAIN ar) ELSE num_trading_days
        /\ compounded_log_returns' = IF step >= 2 THEN clr ELSE compounded_log_returns
        /\ algorithm_period_returns' = IF step >= 2 THEN apr ELSE algorithm_period_returns
        /\ benchmark_period_returns' = IF step >= 2 THEN bpr ELSE benchmark_period_returns
        /\ current_max' = IF step >= 3 THEN cm ELSE current_max
        /\ benchmark_volatility' = IF step >= 3 THEN bv ELSE benchmark_volatility
        /\ algorithm_volatility' = IF step >= 3 THEN av ELSE algorithm_volatility
        /\ daily_treasury' = IF step >= 4 THEN dtr ELSE daily_treasury
        /\ treasury_queries' =
               IF step >= 4 /\ miss
               THEN [treasury_queries EXCEPT ![treasury_end] = @ + 1]
               ELSE treasury_queries
        /\ treasury_period_return' = IF step >= 4 THEN tpr ELSE treasury_period_return
        /\ treasury_period_returns' = IF step >= 4 THEN tprs ELSE treasury_period_returns
        /\ excess_returns' = IF step >= 4 THEN er ELSE excess_returns
        /\ metrics' =
               IF step = 4
               THEN setitem(metrics, dt, [row EXCEPT !["beta"] = beta,
                                                     !["alpha"] = alpha_])
               ELSE IF step = 5
               THEN setitem(metrics, dt, [row EXCEPT !["beta"] = beta,
                                                     !["alpha"] = alpha_,
                                                     !["sharpe"] = sharpe])
               ELSE metrics
        /\ sortino' = IF step = 5 THEN so ELSE sortino
        /\ information' = IF step = 5 THEN inf ELSE information
        /\ max_drawdown' = IF step = 5 THEN md ELSE max_drawdown
        /\ latest_dt' = IF step = 5 THEN dt ELSE latest_dt

\* update, lines 161-232: line 162 asks the library when dt is not in the
\* index, line 167 when the write went through and left no observed
\* strategy return.
update(dt, algorithm_returns_in, benchmark_returns_in) ==
    LET missing == dt \notin DOMAIN algorithm_returns_cont
        empty == /\ IsNaN(algorithm_returns_in)
                 /\ \A t \in DOMAIN algorithm_returns_cont \ {dt} :
                        IsNaN(algorithm_returns_cont[t])
    IN  \E on_missing \in library_answers(pandas_setitem, SetitemAnswers, missing) :
          \E on_empty \in library_answers(empty_mean, EmptyMeanAnswers,
                                          empty /\ (~missing \/ on_missing = "enlarges")) :
             update_as(dt, algorithm_returns_in, benchmark_returns_in,
                       on_missing, on_empty)

\* ------------------------------------------------- helper methods
\* The attributes a direct call of a helper method leaves alone.
helper_unchanged ==
    <<init_raised, returns_frequency, treasury_curves, trading_days, series,
      algorithm_volatility, benchmark_volatility, algorithm_period_returns,
      benchmark_period_returns, treasury_period_returns, excess_returns,
      sortino, information, num_trading_days, treasury_period_return,
      latest_dt, metrics, max_drawdown, daily_treasury,
      treasury_queries, n_updates, last_call_dt, order, all_returned, library>>

\* update_compounded_log_returns() called by the owner of the object, not
\* by update (lines 292-309): before the first update algorithm_returns is
\* None and len raises TypeError at line 293.
call_update_compounded_log_returns ==
    LET raises == IsNoneSeries(algorithm_returns)
    IN  /\ init_raised = "none"
        /\ n_direct' = n_direct + 1
        /\ call' = [op |-> "update_compounded_log_returns", dt |-> -1,
                    raised |-> IF raises THEN "TypeError" ELSE "none",
                    line |-> IF raises THEN 293 ELSE 0]
        /\ rval' = EmptyDict
        /\ compounded_log_returns' =
               IF raises THEN compounded_log_returns
               ELSE update_compounded_log_returns(algorithm_returns,
                                                  appended.algorithm,
                                                  compounded_log_returns)
        /\ UNCHANGED <<helper_unchanged, current_max>>

\* update_current_max() called by the owner of the object, not by update
\* (lines 315-319).
call_update_current_max ==
    /\ init_raised = "none"
    /\ n_direct' = n_direct + 1
    /\ call' = [op |-> "update_current_max", dt |-> -1, raised |-> "none",
                line |-> 0]
    /\ rval' = EmptyDict
    /\ current_max' = update_current_max(compounded_log_returns, current_max)
    /\ UNCHANGED <<helper_unchanged, compounded_log_returns>>

\* -------------------------------------------------------------- to_dict
\* Number of days of a calendar month.
DaysPerMonth == 2

\* Timestamp.strftime("%Y-%m"): the month of the timestamp.
strftime_ym(t) == Mk("label", t \div (DayLen * DaysPerMonth), 1, 1, 1)

\* to_dict, lines 239-256: the first statement that raises, or "none".
\* The entries of the dict are evaluated in the order they are written.
to_dict_raised ==
    CASE IsNoneSeries(algorithm_returns) -> "AttributeError"
      [] DOMAIN algorithm_returns = {} -> "IndexError"
      [] Len(benchmark_volatility) = 0 -> "IndexError"
      [] Len(algorithm_volatility) = 0 -> "IndexError"
      [] treasury_period_return = Unset -> "AttributeError"
      [] Len(algorithm_period_returns) = 0 -> "IndexError"
      [] Len(benchmark_period_returns) = 0 -> "IndexError"
      [] Len(excess_returns) = 0 -> "IndexError"
      [] Len(sortino) = 0 -> "IndexError"
      [] Len(information) = 0 -> "IndexError"
      [] OTHER -> "none"

\* The line of to_dict on which that statement stands (0 for none).
to_dict_line ==
    CASE IsNoneSeries(algorithm_returns) -> 239
      [] DOMAIN algorithm_returns = {} -> 239
      [] Len(benchmark_volatility) = 0 -> 242
      [] Len(algorithm_volatility) = 0 -> 243
      [] treasury_period_return = Unset -> 244
      [] Len(algorithm_period_returns) = 0 -> 245
      [] Len(benchmark_period_returns) = 0 -> 246
      [] Len(excess_returns) = 0 -> 249
      [] Len(sortino) = 0 -> 255
      [] Len(information) = 0 -> 256
      [] OTHER -> 0

\* last_return_date, lines 157-159.
last_return_date == last_valid_index(algorithm_returns, appended.algorithm)

\* to_dict, lines 240-256: the dict before the reportable check.
to_dict_rval ==
    [key \in {"trading_days", "benchmark_volatility", "algo_volatility",
              "treasury_period_return", "algorithm_period_return",
              "benchmark_period_return", "beta", "alpha", "excess_return",
              "max_drawdown", "period_label", "sharpe", "sortino",
              "information"} |->
        CASE key = "trading_days" -> Q(Cardinality(DOMAIN valid(algorithm_returns)), 1)
          [] key = "benchmark_volatility" -> Last(benchmark_volatility)
          [] key = "algo_volatility" -> Last(algorithm_volatility)
          [] key = "treasury_period_return" -> treasury_period_return
          [] key = "algorithm_period_return" -> Last(algorithm_period_returns)
          [] key = "benchmark_period_return" -> Last(benchmark_period_returns)
          [] key = "beta" -> metrics[latest_dt]["beta"]
          [] key = "alpha" -> metrics[latest_dt]["alpha"]
          [] key = "excess_return" -> Last(excess_returns)
          [] key = "max_drawdown" -> max_drawdown
          [] key = "period_label" -> strftime_ym(last_return_date)
          [] key = "sharpe" -> metrics[latest_dt]["sharpe"]
          [] key = "sortino" -> Last(sortino)
          [] key = "information" -> Last(information)]

\* A to_dict that returns the dict as built, without the reportable check.
to_dict_unchecked(d) == d

\* to_dict, lines 258-260: entries failing the reportable check become None.
to_dict_checked(d) ==
    [key \in DOMAIN d |-> IF check_entry(key, d[key]) THEN None ELSE d[key]]

to_dict ==
    /\ init_raised = "none"
    /\ call' = [op |-> "to_dict", dt |-> -1, raised |-> to_dict_raised,
                line |-> to_dict_line]
    /\ rval' = IF to_dict_raised = "none" THEN to_dict_checked(to_dict_rval)
               ELSE EmptyDict
    /\ UNCHANGED <<fields, ghosts, library>>

\* ------------------------------------------------------------- __repr__
\* __repr__, lines 264-279: the metrics, in the order they are shown.
repr_metrics ==
    <<"algorithm_period_returns", "benchmark_period_returns", "excess_returns",
      "trading_days", "benchmark_volatility", "algorithm_volatility", "sharpe",
      "sortino", "information", "beta", "alpha", "max_drawdown",
      "algorithm_returns", "benchmark_returns">>

\* The attributes of the object that hold a list.
list_attributes ==
    {"treasury_period_returns", "compounded_log_returns", "algorithm_volatility",
     "benchmark_volatility", "algorithm_period_returns", "benchmark_period_returns",
     "sortino", "information", "excess_returns"}

\* The names getattr finds on the object: the attributes __init__ assigns
\* (lines 90-148), those update adds (lines 176 and 218) and the names of
\* the class.
attributes ==
    list_attributes
    \cup {"treasury_curves", "start_date", "end_date", "trading_days", "sim_params",
          "algorithm_returns_cont", "benchmark_returns_cont",
          "annualized_mean_returns_cont", "algorithm_returns", "benchmark_returns",
          "annualized_mean_returns", "latest_dt", "metrics", "max_drawdown",
          "current_max", "daily_treasury"}
    \cup {"METRIC_NAMES", "last_return_date", "update", "to_dict",
          "get_minute_index", "get_daily_index", "update_compounded_log_returns",
          "calculate_period_returns", "update_current_max",
          "calculate_max_drawdown", "calculate_sharpe", "calculate_sortino",
          "calculate_information", "calculate_alpha", "calculate_volatility",
          "calculate_beta"}
    \cup (IF num_trading_days # -1 THEN {"num_trading_days"} ELSE {})
    \cup (IF treasury_period_return # Unset THEN {"treasury_period_return"} ELSE {})

\* The list an attribute name holds.
list_of(metric) ==
    CASE metric = "treasury_period_returns" -> treasury_period_returns
      [] metric = "compounded_log_returns" -> compounded_log_returns
      [] metric = "algorithm_volatility" -> algorithm_volatility
      [] metric = "benchmark_volatility" -> benchmark_volatility
      [] metric = "algorithm_period_returns" -> algorithm_period_returns
      [] metric = "benchmark_period_returns" -> benchmark_period_returns
      [] metric = "sortino" -> sortino
      [] metric = "information" -> information
      [] metric = "excess_returns" -> excess_returns

\* __repr__, lines 282-288: the value shown for a metric: the last entry of
\* a list (NaN for an empty list), the object itself otherwise. The two
\* series are assigned separately (lines 163 and 174), so each is None until
\* its own assignment.
repr_value(metric) ==
    IF metric \in list_attributes
    THEN IF Len(list_of(metric)) = 0 THEN NaN ELSE Last(list_of(metric))
    ELSE IF metric = "max_drawdown" THEN max_drawdown
    ELSE IF metric = "algorithm_returns" /\ IsNoneSeries(algorithm_returns) THEN None
    ELSE IF metric = "benchmark_returns" /\ IsNoneSeries(benchmark_returns) THEN None
    ELSE Obj

\* __repr__, line 282: getattr raises AttributeError for a name the object
\* does not have.
repr_raised ==
    IF \E i \in 1 .. Len(repr_metrics) : repr_metrics[i] \notin attributes
    THEN "AttributeError" ELSE "none"

repr ==
    /\ init_raised = "none"
    /\ call' = [op |-> "__repr__", dt |-> -1, raised |-> repr_raised,
                line |-> IF repr_raised = "none" THEN 0 ELSE 282]
    /\ rval' = IF repr_raised = "none"
               THEN [m \in {repr_metrics[i] : i \in 1 .. Len(repr_metrics)} |->
                        repr_value(m)]
               ELSE EmptyDict
    /\ UNCHANGED <<fields, ghosts, library>>

\* ------------------------------------------------------ specifications
\* The documented use (class docstring, lines 71-75): update, with any
\* timestamp of the period, on the grid or off it, in any order, and any
\* returns.
Next ==
    /\ n_updates < MaxUpdates
    /\ \E dt \in Timestamps, a \in AlgoReturns, b \in BenchReturns : update(dt, a, b)

Spec == Init /\ [][Next]_vars

\* Gains, losses, total losses and missing values as returns.
LongAlgoReturns == {NaN, Q(-1, 1), Q(-1, 2), Q(1, 1)}
LongBenchReturns == {NaN, Zero}

\* The read accessors to_dict and __repr__, called at any point between
\* the updates.
NextRead ==
    \/ /\ n_updates < MaxUpdates
       /\ \E dt \in Timestamps, a \in LongAlgoReturns, b \in LongBenchReturns :
             update(dt, a, b)
    \/ to_dict
    \/ repr

SpecRead == Init /\ [][NextRead]_vars

\* The time grid fixed at construction.
Grid == cont_index_of(returns_frequency)

\* A run of one more update, at timestamps of the grid in any order, in an
\* environment whose treasury curves hold a rate for the first day of the
\* period.
InitLong == Init /\ ~IsNaN(treasury_curves[period_start])

NextLong ==
    /\ n_updates < MaxUpdates + 1
    /\ \E dt \in Grid, a \in LongAlgoReturns, b \in LongBenchReturns :
          update(dt, a, b)

SpecLong == InitLong /\ [][NextLong]_vars

\* A caller that, between the updates, also calls the two public helper
\* methods that change the object.
NextDirect ==
    \/ /\ n_updates < MaxUpdates
       /\ \E dt \in Timestamps, a \in LongAlgoReturns, b \in LongBenchReturns :
             update(dt, a, b)
    \/ /\ n_direct < MaxDirectCalls
       /\ call_update_compounded_log_returns
    \/ /\ n_direct < MaxDirectCalls
       /\ call_update_current_max

SpecDirect == Init /\ [][NextDirect]_vars

\* ---------------------------------------------------------------- claims
\* C1: max_drawdown starts at 0 and, over every sequence of update calls
\* (any returns, returns <= -100% and failing calls included), its value
\* after a call is greater than or equal to its value before the call.
C1_MaxDrawdownNonDecreasing ==
    /\ max_drawdown = Zero
    /\ [][/\ ~IsNaN(max_drawdown')
          /\ ~FLess(max_drawdown', max_drawdown)]_vars

\* An update that returned after a strategy return of -100% was recorded,
\* with a drawdown above 0.
C1_Witness ==
    /\ call.op = "update" /\ call.raised = "none"
    /\ FLess(Zero, max_drawdown)
    /\ \E t \in DOMAIN algorithm_returns : algorithm_returns[t] = Q(-1, 1)

\* C2: the treasury source is queried at most once per calendar day,
\* whatever it returned for the day (NaN included): in a run whose updates
\* all returned and whose timestamps strictly increase, no day has been
\* asked for twice.
C2_QueriedAtMostOncePerDay ==
    (all_returned /\ order = "strict") =>
        \A day \in DOMAIN treasury_queries : treasury_queries[day] <= 1

\* The observed-index sets of the two return series.
observed_algorithm == DOMAIN valid(algorithm_returns_cont)
observed_benchmark == DOMAIN valid(benchmark_returns_cont)

\* The update call that just ran wrote both values at t (lines 162 and
\* 173): it did not raise at line 162 or at line 167.
both_written == call.op = "update" /\ call.line \notin {162, 167}

\* C3: an update that wrote both values at t and left the two
\* observed-index sets different raised the mismatch exception, and an
\* update that returned left the two sets identical.
C3_MismatchRaises ==
    call.op = "update" =>
        /\ (both_written /\ observed_algorithm # observed_benchmark) =>
               (call.raised = "Exception" /\ call.line = 197)
        /\ call.raised = "none" =>
               /\ observed_algorithm = observed_benchmark
               /\ DOMAIN algorithm_returns = DOMAIN benchmark_returns

\* An update raised the mismatch exception after writing exactly one
\* missing value at t.
C3_Witness ==
    /\ call.op = "update" /\ call.line = 197
    /\ IsNaN(algorithm_returns_cont[call.dt]) # IsNaN(benchmark_returns_cont[call.dt])

\* C4: an update with a timestamp that is not a point of the grid fails
\* with an error, and no update returns normally with a return or a
\* metrics row recorded at a timestamp off the grid.
C4_OffGridRaises ==
    call.op = "update" =>
        /\ call.dt \notin Grid => call.raised # "none"
        /\ call.raised = "none" =>
               /\ DOMAIN algorithm_returns_cont \subseteq Grid
               /\ DOMAIN benchmark_returns_cont \subseteq Grid
               /\ DOMAIN metrics \subseteq Grid

\* The keys of the mapping to_dict returns.
snapshot_keys ==
    {"trading_days", "benchmark_volatility", "algo_volatility",
     "treasury_period_return", "algorithm_period_return",
     "benchmark_period_return", "beta", "alpha", "excess_return",
     "max_drawdown", "period_label", "sharpe", "sortino", "information"}

\* C5: to_dict, called in any state reachable after construction (before
\* the first update included), returns a mapping with exactly the snapshot
\* keys and does not raise.
C5_SnapshotNeverRaises ==
    call.op = "to_dict" => (call.raised = "none" /\ DOMAIN rval = snapshot_keys)

\* C6: __repr__ returns, in every reachable state, one line per tracked
\* metric, NaN standing for a metric whose list is empty, and does not
\* raise.
C6_ReprNeverRaises ==
    call.op = "__repr__" =>
        /\ call.raised = "none"
        /\ DOMAIN rval = {repr_metrics[i] : i \in 1 .. Len(repr_metrics)}
        /\ \A m \in DOMAIN rval \cap list_attributes :
               rval[m] = IF Len(list_of(m)) = 0 THEN NaN ELSE Last(list_of(m))

\* The update call that just ran assigned metrics.beta[dt] (line 223).
beta_assigned == call.op = "update" /\ call.line \in {0, 225}

\* C7: the beta an update records is exactly 0.0 whenever fewer than two
\* observed pairs exist at that update, whatever the returns; the beta of
\* the first update is always 0.0.
C7_BetaZeroBelowTwo ==
    beta_assigned =>
        /\ Cardinality(observed_algorithm) < 2 => metrics[call.dt]["beta"] = Zero
        /\ n_updates = 1 => metrics[call.dt]["beta"] = Zero

\* An update recorded beta 0.0 for a single pair of nonzero returns.
C7_Witness ==
    /\ beta_assigned /\ call.raised = "none"
    /\ Cardinality(observed_algorithm) = 1
    /\ algorithm_returns_cont[call.dt] = Q(1, 1)
    /\ benchmark_returns_cont[call.dt] = Q(1, 1)
    /\ metrics[call.dt]["beta"] = Zero

\* The update call that just ran appended an algorithm volatility
\* (line 202).
volatility_appended == call.op = "update" /\ call.line \in {0, 208, 210, 225}

\* C8: when the algorithm volatility an update appended is within
\* tolerance of zero, the update does not raise and the Sharpe value of its
\* row is NaN, never a finite value.
C8_SharpeNaNAtZeroVolatility ==
    (volatility_appended /\ tolerant_equals_zero(Last(algorithm_volatility))) =>
        /\ call.raised = "none"
        /\ IsNaN(metrics[call.dt]["sharpe"])

IsPrefix(s, t) == Len(s) <= Len(t) /\ SubSeq(t, 1, Len(s)) = s

\* C9: an update on the grid whose strategy return is <= -100%, in a run
\* whose timestamps arrive in non-decreasing order and whose series hold
\* no label off the grid, does not fail on the log-compounding step: the
\* compounded-log-return history grows by exactly one entry, the previous
\* entry plus 0.0 (0.0 for the first entry).
C9_TotalLossFallback ==
    [][(/\ call'.op = "update" /\ call'.dt \in Grid
        /\ DOMAIN algorithm_returns_cont = Grid
        /\ order' # "unordered"
        /\ ~IsNaN(algorithm_returns_cont'[call'.dt])
        /\ ~FLess(Q(-1, 1), algorithm_returns_cont'[call'.dt]))
       => /\ call'.line # 162
          /\ Len(compounded_log_returns') = Len(compounded_log_returns) + 1
          /\ IsPrefix(compounded_log_returns, compounded_log_returns')
          /\ Last(compounded_log_returns') =
                IF Len(compounded_log_returns) = 0 THEN Ln2(0)
                ELSE Last(compounded_log_returns)]_vars

\* A total loss was compounded after a gain: the second entry repeats the
\* first, nonzero, entry.
C9_Witness ==
    /\ call.op = "update" /\ call.raised = "none" /\ order = "strict"
    /\ algorithm_returns_cont[call.dt] = Q(-1, 1)
    /\ Len(compounded_log_returns) = 2
    /\ compounded_log_returns[1] = Ln2(1)
    /\ compounded_log_returns[2] = Ln2(1)

\* An update step that overwrites nothing written before it: the returns
\* stored at a timestamp, the metrics rows that hold a value, and the
\* entries of every per-update list.
nothing_overwritten ==
    /\ \A t \in Grid :
          /\ ~IsNaN(algorithm_returns_cont[t]) =>
                 algorithm_returns_cont'[t] = algorithm_returns_cont[t]
          /\ ~IsNaN(benchmark_returns_cont[t]) =>
                 benchmark_returns_cont'[t] = benchmark_returns_cont[t]
          /\ (\E m \in METRIC_NAMES : ~IsNaN(metrics[t][m])) =>
                 metrics'[t] = metrics[t]
    /\ IsPrefix(compounded_log_returns, compounded_log_returns')
    /\ IsPrefix(algorithm_period_returns, algorithm_period_returns')
    /\ IsPrefix(benchmark_period_returns, benchmark_period_returns')
    /\ IsPrefix(algorithm_volatility, algorithm_volatility')
    /\ IsPrefix(benchmark_volatility, benchmark_volatility')
    /\ IsPrefix(treasury_period_returns, treasury_period_returns')
    /\ IsPrefix(excess_returns, excess_returns')
    /\ IsPrefix(sortino, sortino')
    /\ IsPrefix(information, information')

\* C10 as stated: over update calls with non-decreasing timestamps nothing
\* already written is overwritten (checked on the runs whose updates all
\* returned).
C10_NonDecreasingNeverOverwrites ==
    [][(call'.op = "update" /\ order' \in {"strict", "nondecreasing"}
        /\ all_returned')
       => nothing_overwritten]_vars

\* C10 as amended: over update calls with strictly increasing timestamps
\* nothing already written is overwritten.
C10_StrictlyIncreasingNeverOverwrites ==
    [][(call'.op = "update" /\ order' = "strict") => nothing_overwritten]_vars

\* Two updates at strictly increasing timestamps returned: two returns and
\* two metrics rows are stored.
C10_Witness ==
    /\ call.op = "update" /\ call.raised = "none" /\ order = "strict"
    /\ all_returned /\ n_updates = 2
    /\ Cardinality(observed_algorithm) = 2
    /\ \A t \in observed_algorithm : ~IsNaN(metrics[t]["beta"])

\* The mean of the observed strategy returns.
observed_mean ==
    LET x == Values(valid(algorithm_returns_cont))
    IN  FDiv(FSum(x), Q(Len(x), 1))

\* C11: the annualized mean an update writes at t is the mean of the
\* observed strategy returns times periods-per-year, 252 on a daily grid
\* and a different, intraday, factor on a minute grid: on a minute grid a
\* nonzero mean is not multiplied by 252.
C11_AnnualizationFactorDiffers ==
    (call.op = "update" /\ call.raised = "none") =>
        /\ returns_frequency = "daily" =>
               annualized_mean_returns_cont[call.dt] = FMul(observed_mean, Q(252, 1))
        /\ (returns_frequency = "minute" /\ observed_mean.n # 0) =>
               annualized_mean_returns_cont[call.dt] # FMul(observed_mean, Q(252, 1))

\* The strategy and the benchmark series hold the same value at every
\* timestamp: the two sequences fed to update were identical.
identical_fed == algorithm_returns_cont = benchmark_returns_cont

\* Every entry of a series holds the same value.
all_equal(s) == \A t, u \in DOMAIN s : s[t] = s[u]

\* C12 as stated: with identical strategy and benchmark sequences, every
\* update with at least 2 observations records beta 1 and alpha 0, the
\* sequences whose returns are all equal included (checked on the updates
\* that returned with a treasury return that is a number).
C12_IdenticalGivesBetaOne ==
    (/\ beta_assigned /\ call.raised = "none" /\ identical_fed
     /\ Cardinality(observed_algorithm) >= 2
     /\ ~IsNaN(treasury_period_return))
    => /\ metrics[call.dt]["beta"] = One
       /\ metrics[call.dt]["alpha"] = Zero

\* C12 as amended: with identical strategy and benchmark sequences, every
\* update with at least 2 observations whose returns are not all equal
\* records beta 1 and alpha 0 (checked, as the statement above, on the
\* updates that returned with a treasury return that is a number).
C12_IdenticalDistinctGivesBetaOne ==
    (/\ beta_assigned /\ call.raised = "none" /\ identical_fed
     /\ Cardinality(observed_algorithm) >= 2
     /\ ~IsNaN(treasury_period_return)
     /\ ~all_equal(valid(algorithm_returns_cont)))
    => /\ metrics[call.dt]["beta"] = One
       /\ metrics[call.dt]["alpha"] = Zero

\* An update returned with two different returns, the same for strategy
\* and benchmark, and recorded beta 1 and alpha 0 against a nonzero
\* treasury return.
C12_Witness ==
    /\ beta_assigned /\ call.raised = "none" /\ identical_fed
    /\ Cardinality(observed_algorithm) = 2
    /\ ~all_equal(valid(algorithm_returns_cont))
    /\ treasury_period_return.k = "fin" /\ treasury_period_return.n # 0
    /\ metrics[call.dt]["beta"] = One
    /\ metrics[call.dt]["alpha"] = Zero

\* C13: construction fails exactly when the effective returns frequency
\* (the argument, or the emission rate when the argument is absent) is
\* neither 'daily' nor 'minute': line 120 raises, no object is obtained and
\* no operation ever runs on it.
C13_UnknownFrequencyFails ==
    /\ (returns_frequency \notin {"daily", "minute"}) <=> (init_raised # "none")
    /\ init_raised # "none" =>
           /\ call.op = "__init__" /\ call.line = 120
           /\ n_updates = 0 /\ rval = EmptyDict

\* A construction with the frequency 'weekly' has failed.
C13_Witness ==
    /\ returns_frequency = "weekly"
    /\ init_raised = "UnboundLocalError"
    /\ call.op = "__init__" /\ call.line = 120

\* C14: in the mapping to_dict returns, no entry is raw NaN: every metric
\* whose latest value is NaN (sharpe after an update with zero volatility,
\* for one) appears as None, and period_label is the year-month label,
\* never replaced.
C14_NaNReportedAsNone ==
    (call.op = "to_dict" /\ call.raised = "none") =>
        /\ \A key \in DOMAIN rval : ~IsNaN(rval[key])
        /\ \A key \in snapshot_keys \ {"period_label"} :
               IsNaN(to_dict_rval[key]) => rval[key] = None
        /\ IsNaN(metrics[latest_dt]["sharpe"]) => rval["sharpe"] = None
        /\ rval["period_label"] = strftime_ym(last_return_date)

\* to_dict returned None for the Sharpe value of an update whose
\* volatility was zero, with the period label in place.
C14_Witness ==
    /\ call.op = "to_dict" /\ call.raised = "none"
    /\ Last(algorithm_volatility) = Zero
    /\ IsNaN(metrics[latest_dt]["sharpe"])
    /\ rval["sharpe"] = None
    /\ rval["period_label"].k = "label"

\* C15: update checks the observed indexes before it appends the period
\* returns or any later per-update value: an update that raised the
\* index-mismatch exception has appended nothing to the period-return,
\* volatility, excess-return, sortino and information lists and has written
\* no metrics row.
C15_CheckBeforeAppends ==
    [][(call'.op = "update" /\ call'.line = 197) =>
          UNCHANGED <<algorithm_period_returns, benchmark_period_returns,
                      algorithm_volatility, benchmark_volatility,
                      excess_returns, sortino, information, metrics>>]_vars

\* The largest entry of a nonempty compounded-log-return history.
history_peak(h) == Ln2(MaxOf({h[i].n : i \in 1 .. Len(h)}))

\* The drawdown candidate of the i-th entry: 1 - exp(entry - peak so far).
candidate(h, i) == FSub(One, math_exp_diff(h[i], history_peak(SubSeq(h, 1, i))))

\* C16: after every update that returns, current_max is at least the
\* latest entry of the compounded-log-return history, the drawdown candidate
\* 1 - exp(latest - current_max) lies in [0, 1) and max_drawdown is at least
\* that candidate; in a run whose updates all returned, current_max is the
\* maximum of all entries of the history and max_drawdown is the largest of
\* the candidates of all updates so far.
C16_PeakAndDrawdown ==
    (call.op = "update" /\ call.raised = "none") =>
        LET h == compounded_log_returns
            latest == FSub(One, math_exp_diff(Last(h), current_max))
            candidates == {candidate(h, i) : i \in 1 .. Len(h)}
        IN  /\ Len(h) >= 1
            /\ ~FLess(current_max, Last(h))
            /\ ~FLess(latest, Zero)
            /\ FLess(latest, One)
            /\ ~FLess(max_drawdown, latest)
            /\ all_returned =>
                   /\ Len(h) = n_updates
                   /\ current_max = history_peak(h)
                   /\ latest = candidate(h, Len(h))
                   /\ max_drawdown \in candidates
                   /\ \A c \in candidates : ~FLess(max_drawdown, c)

\* Three updates returned, a gain, a loss and a gain that recovers the
\* loss: the peak is the first entry, and max_drawdown is the candidate of
\* the second update, above the candidate of the latest one.
C16_Witness ==
    /\ call.op = "update" /\ all_returned /\ n_updates = 3
    /\ compounded_log_returns = <<Ln2(1), Ln2(0), Ln2(1)>>
    /\ current_max = Ln2(1)
    /\ candidate(compounded_log_returns, 3) = Zero
    /\ max_drawdown = Q(1, 2)

\* C17: an update that returns, with a strategy return r > -1 and in a run
\* whose timestamps arrive in non-decreasing order and whose series hold
\* no label off the grid, appends exactly one entry to the
\* compounded-log-return history: the previous entry plus log(1 + r) for
\* the r of that call (log(1 + r) for the first entry).
C17_AppendsLogOfPassedReturn ==
    [][(/\ call'.op = "update" /\ call'.raised = "none"
        /\ DOMAIN algorithm_returns_cont' = Grid
        /\ order' # "unordered"
        /\ ~IsNaN(algorithm_returns_cont'[call'.dt])
        /\ FLess(Q(-1, 1), algorithm_returns_cont'[call'.dt]))
       => /\ Len(compounded_log_returns') = Len(compounded_log_returns) + 1
          /\ IsPrefix(compounded_log_returns, compounded_log_returns')
          /\ Last(compounded_log_returns') =
                Ln2((IF Len(compounded_log_returns) = 0 THEN 0
                     ELSE Last(compounded_log_returns).n)
                    + math_log(FAdd(One, algorithm_returns_cont'[call'.dt])).n)]_vars

\* A gain of 100% and then a loss of 50% were compounded: log 2, then
\* log 2 + log(1/2) = 0.
C17_Witness ==
    /\ call.op = "update" /\ call.raised = "none" /\ order = "strict"
    /\ all_returned /\ n_updates = 2
    /\ DOMAIN algorithm_returns_cont = Grid
    /\ algorithm_returns_cont[call.dt] = Q(-1, 2)
    /\ compounded_log_returns = <<Ln2(1), Ln2(0)>>

\* C18: the Sharpe ratio an update records for t uses the treasury period
\* return that update resolved through the cache for t's day, the value it
\* appended to treasury_period_returns and subtracted in its excess return
\* (checked on the updates that carried a return, in runs of strictly
\* increasing timestamps whose updates all returned).
C18_SharpeUsesResolvedTreasury ==
    (/\ call.op = "update" /\ call.raised = "none"
     /\ all_returned /\ order = "strict"
     /\ ~IsNaN(algorithm_returns_cont[call.dt]))
    => /\ treasury_period_return = daily_treasury[DayStart(call.dt)]
       /\ Last(treasury_period_returns) = treasury_period_return
       /\ Last(excess_returns) =
              FSub(Last(algorithm_period_returns), treasury_period_return)
       /\ metrics[call.dt]["sharpe"] =
              sharpe_ratio(Last(algorithm_volatility),
                           annualized_mean_returns_cont[call.dt],
                           treasury_period_return)

\* C19: after every update that returns normally all per-update lists have
\* the same length, and that length is the number of non-missing strategy
\* returns (checked in runs of strictly increasing timestamps whose
\* updates all returned).
C19_SequencesSameLength ==
    (/\ call.op = "update" /\ call.raised = "none"
     /\ all_returned /\ order = "strict")
    => LET n == Len(compounded_log_returns)
       IN  /\ Len(algorithm_period_returns) = n
           /\ Len(benchmark_period_returns) = n
           /\ Len(algorithm_volatility) = n
           /\ Len(benchmark_volatility) = n
           /\ Len(treasury_period_returns) = n
           /\ Len(excess_returns) = n
           /\ Len(sortino) = n
           /\ Len(information) = n
           /\ n = Cardinality(observed_algorithm)
           /\ n = Cardinality(DOMAIN valid(algorithm_returns))
=============================================================================
